---- MODULE Spec2Model ----
(***************************************************************************)
(* MIDI-to-CV converter on an ATtiny85 (MIDI-CV-ATtiny85.ino).             *)
(*                                                                         *)
(* The sketch is a polling loop: every iteration of loop() reads at most   *)
(* one byte from the software UART and hands it to MidiProcess (the        *)
(* running-status decoder, which calls midiNoteOn / midiNoteOff), then     *)
(* services the two timers (end of the trigger pulse, promotion of the     *)
(* pending note in multi-trigger mode).                                    *)
(*                                                                         *)
(* The handlers are written as operators on a record of the program's      *)
(* globals and output registers; an action of the state machine is one     *)
(* iteration of loop() applied to the variables.  The two compile-time options MULTI_TRIG and     *)
(* AMPLD_CV_MSG are variables fixed by Init, so that every build of the    *)
(* sketch is covered.                                                      *)
(***************************************************************************)
EXTENDS Integers, Sequences, FiniteSets, TLC

\* ------------------------------------------------------------ constants
MIDI_CHAN  == 12
MIDILONOTE == 36
MIDIHINOTE == 96
TRIGPULSE  == 1000
GATEDELAY  == 5
OCR1C      == 239
LOW        == 0
HIGH       == 1
NoData     == 255
SetupOCR1A == 96
SetupOCR1B == 180

\* ------------------------------------------------------------ bounds
\* Longest run of the timed specification, in microseconds of real time.
MaxTime == 6000
\* Time that may pass between two iterations of loop(), in microseconds.
TickSteps == {0, 500, 1000}
\* The same for the runs with the whole of RxBytes.
CoarseSteps == {0, 1000}
\* The bytes the UART delivers: the three handled status bytes on the
\* configured channel, a Note On for channel 1, a System Common byte
\* (SysEx start), two System Real-Time bytes (timing clock, reset), and the
\* data bytes 0, 1 and 2 (three notes below the range, velocity 0 and two
\* velocities, the controllers 0, 1 and 2).
RxBytes == {139, 155, 187, 144, 240, 248, 255, 0, 1, 2}
\* The bytes of the runs that follow the timers over MaxTime, which begin
\* under the Note On status of the configured channel: data bytes below,
\* inside and above the note range (velocity 0 is a Note Off).
NoteBytes == {0, 60, 127}
\* Longest run with the whole of RxBytes, in microseconds of real time.
ShortTime == 1000
\* The builds that are explored.
MultiTrigOptions == {0, 1}
AmpldOptions == {"V", "M", "B"}
\* The runs across the wrap of the counters begin this many microseconds
\* before the wrap.
WrapLead == 3000
\* The runs with the keys followed: two notes (0 is also the velocity of a
\* Note Off), bytes up to LastByteTime, time up to KeyTime, which leaves
\* more than the retrigger delay and a trigger pulse after the last byte.
KeyBytes == {0, 60}
KeySteps == {0, 1000}
LastByteTime == 1000
KeyTime == 8000
\* What rx holds after an iteration in which no byte was available.
NoByte == -1
\* The count of messages decoded under one status byte stops here.
MaxPairs == 2

\* ------------------------------------------------------------ uint32_t
\* A uint32_t is kept as <<high half, low half>> of 16 bits each, so that
\* the subtraction wraps modulo 2^32 exactly as on the target.
Half == 65536

Add32(a, d) ==
  LET lo == a[2] + d
  IN  <<(a[1] + (lo \div Half)) % Half, lo % Half>>

Sub32(a, b) ==
  LET lo == a[2] - b[2]
      borrow == IF lo < 0 THEN 1 ELSE 0
  IN  <<(a[1] - b[1] - borrow) % Half, lo % Half>>

\* a >= n for a uint32_t a and a number n below 2^16
Ge32(a, n) == a[1] > 0 \/ a[2] >= n

\* ------------------------------------------------------------ state
VARIABLES
  MULTI_TRIG,         \* build option: 1 = multi-trigger mode
  AMPLD_CV_MSG,       \* build option: "V", "M" or "B"
  notePlaying, notePending,
  triggerPulseBegin, gateDelayBegin,
  midiStatusByte, midiDataByte1, midiDataByte2,
  OCR1A, OCR1B,       \* PWM duty registers: pitch CV, amplitude CV
  gate, trigger,      \* levels of the GATE and TRIGGER pins
  micros, millis,     \* what micros() and millis() return now
  usFrac,             \* microseconds into the current millisecond
  rx,                 \* the byte read by the last iteration of loop(), or NoByte
  emitted,            \* the handler call MidiProcess made in that iteration
  now,                \* real time since the first state, in microseconds
  gateRoseAt,         \* real time of the last low-to-high change of the gate
  trigAt,             \* real time of the last start of a trigger pulse
  retrigAt,           \* real time of the last Note On that cut a playing note
  pairs,              \* messages decoded since the last status byte (to MaxPairs)
  cut,                \* the status byte in force cut a message of the configured
                      \* channel short after its first data byte (until the
                      \* iteration after the first message under it)
  ctl,                \* the controller number of the Control Change message that
                      \* this iteration completed, or NoData
  lastOn,             \* the clamped note of the last Note On event, or 0
  held                \* the note numbers with a Note On and no Note Off since
                      \* (these two are followed in the runs of SpecKeys only)

config  == <<MULTI_TRIG, AMPLD_CV_MSG>>
decoder == <<midiStatusByte, midiDataByte1, midiDataByte2>>
voice   == <<notePlaying, notePending, triggerPulseBegin, gateDelayBegin>>
outputs == <<OCR1A, OCR1B, gate, trigger>>
clock   == <<micros, millis, usFrac>>
ghost   == <<rx, emitted, now, gateRoseAt, trigAt, retrigAt, pairs, cut, ctl>>
keys    == <<lastOn, held>>
vars    == <<config, decoder, voice, outputs, clock, ghost, keys>>

None == <<"None">>

\* The globals, registers and pins as one record, with the clock readings
\* the handlers take, the handler call MidiProcess makes (emitted) and whether
\* a trigger pulse was started (started).
State ==
  [ MULTI_TRIG |-> MULTI_TRIG, AMPLD_CV_MSG |-> AMPLD_CV_MSG,
    notePlaying |-> notePlaying, notePending |-> notePending,
    triggerPulseBegin |-> triggerPulseBegin, gateDelayBegin |-> gateDelayBegin,
    midiStatusByte |-> midiStatusByte,
    midiDataByte1 |-> midiDataByte1, midiDataByte2 |-> midiDataByte2,
    OCR1A |-> OCR1A, OCR1B |-> OCR1B, gate |-> gate, trigger |-> trigger,
    micros |-> micros, millis |-> millis,
    emitted |-> None, started |-> FALSE ]

\* ------------------------------------------------------------ helpers
\* 0x80 | (MIDI_CHAN-1) and its siblings: the low nibble of the type is 0.
StatusOf(type) == type + (MIDI_CHAN - 1)

\* int on the AVR is 16 bits, two's complement
Int16(x) == ((x + 32768) % 65536) - 32768

\* C's integer division truncates toward zero
CDiv(a, b) == IF a >= 0 THEN a \div b ELSE -((-a) \div b)

\* A write to an 8-bit register keeps the low 8 bits
Reg8(x) == x % 256

\* (midi_note - MIDILONOTE) * 4 written to OCR1A
PitchDuty(midi_note) == Reg8(Int16(Int16(midi_note - MIDILONOTE) * 4))

\* Mutant of AmpldDuty: the product is kept in 8 bits, as an expression of
\* uint8_t operands without the promotion to int would be.
AmpldDuty8(value) == Reg8(CDiv(Reg8(240 * value), 128))

\* (240 * value) / 128 written to OCR1B
AmpldDuty(value) == Reg8(CDiv(Int16(240 * value), 128))

ClampNote(midi_note) ==
  LET n1 == IF midi_note < MIDILONOTE THEN MIDILONOTE ELSE midi_note
  IN  IF n1 > MIDIHINOTE THEN MIDIHINOTE ELSE n1

triggerOn(s) ==
  [s EXCEPT !.trigger = HIGH, !.triggerPulseBegin = s.micros, !.started = TRUE]

\* ------------------------------------------------------------ handlers
\* Mutant of midiNoteOn: the legato branch starts a trigger pulse on every
\* Note On (the test of notePlaying at line 208 left out).
midiNoteOnRetrig(s, midi_note, velocity) ==
  LET note == ClampNote(midi_note)
      s1 == IF s.MULTI_TRIG = 1
            THEN IF s.notePlaying # 0
                 THEN [s EXCEPT !.gate = LOW, !.notePlaying = 0,
                                !.notePending = note,
                                !.gateDelayBegin = s.millis]
                 ELSE [triggerOn([s EXCEPT !.OCR1A = PitchDuty(note),
                                           !.gate = HIGH])
                         EXCEPT !.notePlaying = note]
            ELSE [triggerOn([s EXCEPT !.OCR1A = PitchDuty(note), !.gate = HIGH])
                    EXCEPT !.notePlaying = note]
      s2 == IF s1.AMPLD_CV_MSG = "V"
            THEN [s1 EXCEPT !.OCR1B = AmpldDuty(velocity)]
            ELSE s1
  IN  [s2 EXCEPT !.emitted = <<"NoteOn", midi_note, velocity>>]

midiNoteOn(s, midi_note, velocity) ==
  LET note == ClampNote(midi_note)
      s1 == IF s.MULTI_TRIG = 1
            THEN IF s.notePlaying # 0
                 THEN [s EXCEPT !.gate = LOW, !.notePlaying = 0,
                                !.notePending = note,
                                !.gateDelayBegin = s.millis]
                 ELSE [triggerOn([s EXCEPT !.OCR1A = PitchDuty(note),
                                           !.gate = HIGH])
                         EXCEPT !.notePlaying = note]
            ELSE LET p == [s EXCEPT !.OCR1A = PitchDuty(note)]
                     q == IF p.notePlaying = 0
                          THEN triggerOn([p EXCEPT !.gate = HIGH])
                          ELSE p
                 IN  [q EXCEPT !.notePlaying = note]
      s2 == IF s1.AMPLD_CV_MSG = "V"
            THEN [s1 EXCEPT !.OCR1B = AmpldDuty(velocity)]
            ELSE s1
  IN  [s2 EXCEPT !.emitted = <<"NoteOn", midi_note, velocity>>]

\* Mutant of midiNoteOff: the gate is turned off whatever note is released
\* (the comparison at line 228 left out).
midiNoteOffAny(s, midi_note, midi_level) ==
  [s EXCEPT !.notePlaying = 0, !.gate = LOW,
            !.emitted = <<"NoteOff", midi_note>>]

midiNoteOff(s, midi_note, midi_level) ==
  LET note == ClampNote(midi_note)
      s1 == IF note = s.notePlaying
            THEN [s EXCEPT !.notePlaying = 0, !.gate = LOW]
            ELSE s
  IN  [s1 EXCEPT !.emitted = <<"NoteOff", midi_note>>]

\* Mutant of ControlChange: the controllers 1 and 2 set the amplitude in
\* every build (the tests of AMPLD_CV_MSG at lines 164 and 168 left out).
ControlChangeAnySource(s) ==
  LET cc  == s.midiDataByte1
      val == s.midiDataByte2
  IN  IF cc = 1 \/ cc = 2
      THEN [s EXCEPT !.OCR1B = AmpldDuty(val),
                     !.emitted = <<"ControlChange", cc, val>>]
      ELSE s

\* The Control Change branch once both data bytes are in.
ControlChange(s) ==
  LET cc  == s.midiDataByte1
      val == s.midiDataByte2
      s1 == IF cc = 1 /\ s.AMPLD_CV_MSG = "M"
            THEN [s EXCEPT !.OCR1B = AmpldDuty(val),
                           !.emitted = <<"ControlChange", cc, val>>]
            ELSE s
      s2 == IF cc = 2 /\ s1.AMPLD_CV_MSG = "B"
            THEN [s1 EXCEPT !.OCR1B = AmpldDuty(val),
                            !.emitted = <<"ControlChange", cc, val>>]
            ELSE s1
  IN  s2

ClearData(s) == [s EXCEPT !.midiDataByte1 = NoData, !.midiDataByte2 = NoData]

\* Mutant of StatusByte: the data bytes in store survive the status byte
\* (lines 116 and 117 left out).
StatusByteKeepsData(s, midibyte) == [s EXCEPT !.midiStatusByte = midibyte]

\* lines 112..118: a channel-voice status byte starts running status
StatusByte(s, midibyte) ==
  [s EXCEPT !.midiStatusByte = midibyte,
            !.midiDataByte1 = NoData, !.midiDataByte2 = NoData]

\* Mutant of SystemCommon: running status survives a System Common byte.
SystemCommonKeeps(s) == s

\* lines 119..123: a System Common byte resets running status
SystemCommon(s) == [s EXCEPT !.midiStatusByte = 0]

\* Mutant of RealTime: a Real-Time byte is taken for a System Common byte
\* (the upper limit 0xF7 at line 119 read as 0xFF).
RealTimeResets(s) == [s EXCEPT !.midiStatusByte = 0]

\* lines 124..127: a System Real-Time byte is ignored
RealTime(s) == s

\* lines 135..145: a data byte under Note Off on the configured channel
NoteOffData(s, midibyte) ==
  IF s.midiDataByte1 = NoData
  THEN [s EXCEPT !.midiDataByte1 = midibyte]
  ELSE LET s1 == [s EXCEPT !.midiDataByte2 = midibyte]
       IN  ClearData(midiNoteOff(s1, s1.midiDataByte1, s1.midiDataByte2))

\* Mutant of NoteOnData: the status byte is dropped once its message is
\* complete, so that the next message needs a status byte of its own.
NoteOnDataOnce(s, midibyte) ==
  IF s.midiDataByte1 = NoData
  THEN [s EXCEPT !.midiDataByte1 = midibyte]
  ELSE LET s1 == [s EXCEPT !.midiDataByte2 = midibyte]
           s2 == ClearData(IF s1.midiDataByte2 = 0
                           THEN midiNoteOff(s1, s1.midiDataByte1, s1.midiDataByte2)
                           ELSE midiNoteOn(s1, s1.midiDataByte1, s1.midiDataByte2))
       IN  [s2 EXCEPT !.midiStatusByte = 0]

\* Mutant of NoteOnData: velocity 0 is not told apart (line 152 left out).
NoteOnDataNoZero(s, midibyte) ==
  IF s.midiDataByte1 = NoData
  THEN [s EXCEPT !.midiDataByte1 = midibyte]
  ELSE LET s1 == [s EXCEPT !.midiDataByte2 = midibyte]
       IN  ClearData(midiNoteOn(s1, s1.midiDataByte1, s1.midiDataByte2))

\* lines 146..157: a data byte under Note On on the configured channel
NoteOnData(s, midibyte) ==
  IF s.midiDataByte1 = NoData
  THEN [s EXCEPT !.midiDataByte1 = midibyte]
  ELSE LET s1 == [s EXCEPT !.midiDataByte2 = midibyte]
       IN  ClearData(IF s1.midiDataByte2 = 0
                     THEN midiNoteOff(s1, s1.midiDataByte1, s1.midiDataByte2)
                     ELSE midiNoteOn(s1, s1.midiDataByte1, s1.midiDataByte2))

\* Mutant of ControlChangeData: the data bytes are cleared only when the
\* controller is one that is handled (lines 172 and 173 moved into the ifs).
ControlChangeDataKeeps(s, midibyte) ==
  IF s.midiDataByte1 = NoData
  THEN [s EXCEPT !.midiDataByte1 = midibyte]
  ELSE LET s1 == ControlChange([s EXCEPT !.midiDataByte2 = midibyte])
       IN  IF s1.midiDataByte1 \in {1, 2} THEN ClearData(s1) ELSE s1

\* lines 158..175: a data byte under Control Change on the configured channel
ControlChangeData(s, midibyte) ==
  IF s.midiDataByte1 = NoData
  THEN [s EXCEPT !.midiDataByte1 = midibyte]
  ELSE ClearData(ControlChange([s EXCEPT !.midiDataByte2 = midibyte]))

\* Mutant of DataByte: the message type is matched and the channel is not.
DataByteAnyChannel(s, midibyte) ==
  IF s.midiStatusByte = 0
  THEN s
  ELSE IF s.midiStatusByte \div 16 = 8
  THEN NoteOffData(s, midibyte)
  ELSE IF s.midiStatusByte \div 16 = 9
  THEN NoteOnData(s, midibyte)
  ELSE IF s.midiStatusByte \div 16 = 11
  THEN ControlChangeData(s, midibyte)
  ELSE s

\* lines 128..177: a data byte
DataByte(s, midibyte) ==
  IF s.midiStatusByte = 0
  THEN s
  ELSE IF s.midiStatusByte = StatusOf(128)
  THEN NoteOffData(s, midibyte)
  ELSE IF s.midiStatusByte = StatusOf(144)
  THEN NoteOnData(s, midibyte)
  ELSE IF s.midiStatusByte = StatusOf(176)
  THEN ControlChangeData(s, midibyte)
  ELSE s

MidiProcess(s, midibyte) ==
  IF midibyte >= 128 /\ midibyte <= 239
  THEN StatusByte(s, midibyte)
  ELSE IF midibyte >= 240 /\ midibyte <= 247
  THEN SystemCommon(s)
  ELSE IF midibyte >= 248 /\ midibyte <= 255
  THEN RealTime(s)
  ELSE DataByte(s, midibyte)

\* Mutant of TriggerTimeout: the end of the pulse is computed and compared
\* directly (micros() >= triggerPulseBegin + TRIGPULSE), all in uint32_t.
TriggerTimeoutDirect(s) ==
  LET end == Add32(s.triggerPulseBegin, TRIGPULSE)
  IN  IF s.micros[1] > end[1] \/ (s.micros[1] = end[1] /\ s.micros[2] >= end[2])
      THEN [s EXCEPT !.trigger = LOW]
      ELSE s

\* loop(), line 94: end of the trigger pulse
TriggerTimeout(s) ==
  IF Ge32(Sub32(s.micros, s.triggerPulseBegin), TRIGPULSE)
  THEN [s EXCEPT !.trigger = LOW]
  ELSE s

\* Mutant of PendingTimeout: the promotion does not turn the gate on (line
\* 102 left out).
PendingTimeoutNoGate(s) ==
  IF s.MULTI_TRIG = 0
  THEN s
  ELSE IF s.notePending # 0 /\ Ge32(Sub32(s.millis, s.gateDelayBegin), GATEDELAY)
  THEN [triggerOn([s EXCEPT !.OCR1A = PitchDuty(s.notePending)])
          EXCEPT !.notePlaying = s.notePending, !.notePending = 0]
  ELSE s

\* Mutant of PendingTimeout: the delay must be exceeded (> for >= at line 99).
PendingTimeoutLate(s) ==
  IF s.MULTI_TRIG = 0
  THEN s
  ELSE IF /\ s.notePending # 0
          /\ Ge32(Sub32(s.millis, s.gateDelayBegin), GATEDELAY + 1)
  THEN [triggerOn([s EXCEPT !.OCR1A = PitchDuty(s.notePending), !.gate = HIGH])
          EXCEPT !.notePlaying = s.notePending, !.notePending = 0]
  ELSE s

\* loop(), lines 96..106: promotion of the pending note
PendingTimeout(s) ==
  IF s.MULTI_TRIG = 0
  THEN s
  ELSE IF s.notePending # 0 /\ Ge32(Sub32(s.millis, s.gateDelayBegin), GATEDELAY)
  THEN [triggerOn([s EXCEPT !.OCR1A = PitchDuty(s.notePending), !.gate = HIGH])
          EXCEPT !.notePlaying = s.notePending, !.notePending = 0]
  ELSE s

\* ------------------------------------------------------------ actions
\* The state s with the clock readings of the iteration that begins dt later.
AtTime(s, dt) ==
  [s EXCEPT !.micros = Add32(micros, dt),
            !.millis = Add32(millis, (usFrac + dt) \div 1000)]

\* loop(), lines 94..106: the two timers
Timers(s) == PendingTimeout(TriggerTimeout(s))

\* One iteration of loop(), begun dt after the previous one; s1 is the
\* state after line 91 and s2 the state at the end of the iteration.
Iteration(dt, byte, s1, s2) ==
  /\ now' = now + dt
  /\ micros' = s2.micros
  /\ millis' = s2.millis
  /\ usFrac' = (usFrac + dt) % 1000
  /\ notePlaying' = s2.notePlaying
  /\ notePending' = s2.notePending
  /\ triggerPulseBegin' = s2.triggerPulseBegin
  /\ gateDelayBegin' = s2.gateDelayBegin
  /\ midiStatusByte' = s2.midiStatusByte
  /\ midiDataByte1' = s2.midiDataByte1
  /\ midiDataByte2' = s2.midiDataByte2
  /\ OCR1A' = s2.OCR1A
  /\ OCR1B' = s2.OCR1B
  /\ gate' = s2.gate
  /\ trigger' = s2.trigger
  /\ rx' = byte
  /\ emitted' = s2.emitted
  /\ gateRoseAt' = IF \/ (gate = LOW /\ s1.gate = HIGH)
                      \/ (s1.gate = LOW /\ s2.gate = HIGH)
                   THEN now + dt ELSE gateRoseAt
  /\ trigAt' = IF s2.started THEN now + dt ELSE trigAt
  /\ retrigAt' = IF s2.emitted[1] = "NoteOn" /\ MULTI_TRIG = 1 /\ notePlaying # 0
                 THEN now + dt ELSE retrigAt
  /\ pairs' = IF byte # NoByte /\ byte >= 128 /\ byte <= 239 THEN 0
              ELSE IF midiDataByte1 # NoData /\ s2.midiDataByte1 = NoData
                      /\ pairs < MaxPairs
              THEN pairs + 1 ELSE pairs
  /\ cut' = IF byte # NoByte /\ byte >= 128 /\ byte <= 239
            THEN /\ midiStatusByte \in {StatusOf(128), StatusOf(144), StatusOf(176)}
                 /\ midiDataByte1 # NoData
            ELSE IF (byte # NoByte /\ byte >= 240 /\ byte <= 247) \/ pairs > 0
            THEN FALSE ELSE cut
  /\ ctl' = IF /\ byte # NoByte /\ byte < 128
               /\ midiStatusByte = StatusOf(176) /\ midiDataByte1 # NoData
            THEN midiDataByte1 ELSE NoData
  /\ UNCHANGED config

\* setup(), and the zero-initialised globals other than the decoder's
Setup ==
  /\ MULTI_TRIG \in MultiTrigOptions
  /\ AMPLD_CV_MSG \in AmpldOptions
  /\ notePlaying = 0
  /\ notePending = 0
  /\ triggerPulseBegin = <<0, 0>>
  /\ gateDelayBegin = <<0, 0>>
  /\ OCR1A = SetupOCR1A
  /\ OCR1B = SetupOCR1B
  /\ gate = LOW
  /\ trigger = LOW
  /\ micros = <<0, 0>>
  /\ millis = <<0, 0>>
  /\ usFrac = 0
  /\ emitted = None
  /\ now = 0
  /\ gateRoseAt = -1
  /\ trigAt = -1
  /\ retrigAt = -1
  /\ pairs = 0
  /\ cut = FALSE
  /\ ctl = NoData
  /\ lastOn = 0
  /\ held = {}

\* The state after setup()
Init ==
  /\ Setup
  /\ midiStatusByte = 0
  /\ midiDataByte1 = 0
  /\ midiDataByte2 = 0
  /\ rx = NoByte

\* The velocity build, right after the first iteration of loop() has read
\* the Note On status byte of the configured channel.
InitTimed ==
  /\ Setup
  /\ AMPLD_CV_MSG = "V"
  /\ midiStatusByte = StatusOf(144)
  /\ midiDataByte1 = NoData
  /\ midiDataByte2 = NoData
  /\ rx = StatusOf(144)

\* As InitTimed, WrapLead microseconds before both counters wrap: the
\* microsecond counter reads 2^32 - 3000 and the millisecond counter 2^32 - 3.
InitWrap ==
  /\ MULTI_TRIG \in MultiTrigOptions
  /\ AMPLD_CV_MSG = "V"
  /\ notePlaying = 0
  /\ notePending = 0
  /\ triggerPulseBegin = <<0, 0>>
  /\ gateDelayBegin = <<0, 0>>
  /\ OCR1A = SetupOCR1A
  /\ OCR1B = SetupOCR1B
  /\ gate = LOW
  /\ trigger = LOW
  /\ micros = Sub32(<<0, 0>>, <<0, WrapLead>>)
  /\ millis = Sub32(<<0, 0>>, <<0, WrapLead \div 1000>>)
  /\ usFrac = 0
  /\ midiStatusByte = StatusOf(144)
  /\ midiDataByte1 = NoData
  /\ midiDataByte2 = NoData
  /\ rx = StatusOf(144)
  /\ emitted = None
  /\ now = 0
  /\ gateRoseAt = -1
  /\ trigAt = -1
  /\ retrigAt = -1
  /\ pairs = 0
  /\ cut = FALSE
  /\ ctl = NoData
  /\ lastOn = 0
  /\ held = {}

\* loop() with a byte available at line 91
LoopRead(dt, midibyte) ==
  LET s1 == MidiProcess(AtTime(State, dt), midibyte)
  IN  Iteration(dt, midibyte, s1, Timers(s1)) /\ UNCHANGED keys

\* loop() with no byte available at line 91
LoopIdle(dt) ==
  LET s1 == AtTime(State, dt)
  IN  Iteration(dt, NoByte, s1, Timers(s1)) /\ UNCHANGED keys

\* The same two with the keys followed: a Note On event presses its key and
\* is the last Note On, a Note Off event releases its key.
KeysAfter(s1) ==
  /\ lastOn' = IF s1.emitted[1] = "NoteOn" THEN ClampNote(s1.emitted[2])
               ELSE lastOn
  /\ held' = IF s1.emitted[1] = "NoteOn" THEN held \cup {s1.emitted[2]}
             ELSE IF s1.emitted[1] = "NoteOff" THEN held \ {s1.emitted[2]}
             ELSE held

KeysRead(dt, midibyte) ==
  LET s1 == MidiProcess(AtTime(State, dt), midibyte)
  IN  Iteration(dt, midibyte, s1, Timers(s1)) /\ KeysAfter(s1)

KeysIdle(dt) ==
  LET s1 == AtTime(State, dt)
  IN  Iteration(dt, NoByte, s1, Timers(s1)) /\ UNCHANGED keys

Next ==
  \/ \E dt \in CoarseSteps : \E midibyte \in RxBytes :
        now + dt <= ShortTime /\ LoopRead(dt, midibyte)
  \/ \E dt \in CoarseSteps : now + dt <= ShortTime /\ LoopIdle(dt)

Spec == Init /\ [][Next]_vars

NextTimed ==
  \/ \E dt \in TickSteps : \E midibyte \in NoteBytes :
        now + dt <= MaxTime /\ LoopRead(dt, midibyte)
  \/ \E dt \in TickSteps : now + dt <= MaxTime /\ LoopIdle(dt)

SpecTimed == InitTimed /\ [][NextTimed]_vars

SpecWrap == InitWrap /\ [][NextTimed]_vars

\* The multi-trigger build played from a keyboard: the last byte arrives no
\* later than LastByteTime, and loop() goes on running while time advances.
InitKeys == InitTimed /\ MULTI_TRIG = 1

\* An iteration of loop() by which time has advanced.
TimePasses ==
  \E dt \in KeySteps \ {0} : now + dt <= KeyTime /\ KeysIdle(dt)

NextKeys ==
  \/ \E dt \in KeySteps : \E midibyte \in KeyBytes :
        now + dt <= LastByteTime /\ KeysRead(dt, midibyte)
  \/ \E dt \in KeySteps : now + dt <= KeyTime /\ KeysIdle(dt)

SpecKeys == InitKeys /\ [][NextKeys]_vars /\ WF_vars(TimePasses)

\* ------------------------------------------------------------ claims
\* The bytes fed to the decoder one after the other, each as line 91 does.
Step(s, midibyte) == MidiProcess([s EXCEPT !.emitted = None], midibyte)

RECURSIVE Feed(_, _)
Feed(s, bytes) ==
  IF bytes = <<>> THEN s ELSE Feed(Step(s, Head(bytes)), Tail(bytes))

\* The handler calls made while the bytes are fed, in order.
RECURSIVE Events(_, _)
Events(s, bytes) ==
  IF bytes = <<>>
  THEN <<>>
  ELSE LET s1 == Step(s, Head(bytes))
       IN  (IF s1.emitted = None THEN <<>> ELSE <<s1.emitted>>)
             \o Events(s1, Tail(bytes))

\* The voice state and the four outputs of a state record.
VoiceOf(s) == <<s.notePlaying, s.notePending, s.triggerPulseBegin, s.gateDelayBegin>>
OutputsOf(s) == <<s.OCR1A, s.OCR1B, s.gate, s.trigger>>
DecoderOf(s) == <<s.midiStatusByte, s.midiDataByte1, s.midiDataByte2>>

NoteNumbers == 0 .. 127

\* C1: in multi-trigger mode, after a Note On that arrives while a note is
\* playing, the gate is low until at least the retrigger delay (5 ms) has
\* elapsed since that Note On.
C1_GateLowForRetriggerDelay ==
  (MULTI_TRIG = 1 /\ retrigAt # -1 /\ now - retrigAt < GATEDELAY * 1000)
    => gate = LOW

\* C5: the pitch duty written to OCR1A is never negative and never above
\* the top output level 239 (OCR1C), on every path that writes it.
C5_PitchDutyInRange == OCR1A >= 0 /\ OCR1A <= OCR1C

\* C8: after a low-to-high change of the gate at time t, the trigger output
\* is low at the end of every iteration of loop() run at a time now with
\* now - t >= TRIGPULSE.  A pulse started TRIGPULSE or more after t is left
\* out, so that a trigger which did drop and was started again is not held
\* against the claim: what is asked is that the pulse running since t ends.
C8_TriggerLowAfterPulse ==
  (/\ gateRoseAt # -1
   /\ now - gateRoseAt >= TRIGPULSE
   /\ trigAt - gateRoseAt < TRIGPULSE) => trigger = LOW

\* ---- running status and the byte classes (Spec)
OwnNoteOff == StatusOf(128)
OwnNoteOn  == StatusOf(144)

\* Note numbers at and around the ends of the note range and the note 60.
ProbeNotes == {0, 35, 36, 37, 59, 60, 61, 95, 96, 97, 127}
DataProbes == {0, 1, 2, 64, 127}
RealTimeBytes == 248 .. 255
SystemCommonBytes == 240 .. 247
\* Channel-voice status bytes of other channels: the three types the
\* sketch handles on the channels next to the configured one and on the
\* first and the last channel, and the other types on the first channel.
OtherChannelStatus ==
  {type + ch : type \in {128, 144, 176}, ch \in {0, MIDI_CHAN - 2, MIDI_CHAN, 15}}
    \cup {160, 192, 208, 224}

\* C2: after a Note On status byte for the configured channel, two pairs of
\* data bytes (note, velocity > 0) with nothing in between produce exactly
\* the two Note On calls, in arrival order, and after each pair the running
\* status is unchanged and both data-byte slots hold NoData.
C2_RunningStatusPersists ==
  LET s0 == Step(State, OwnNoteOn)
  IN  \A n \in {0, 60, 127} : \A v \in {1, 127} :
        LET n2 == 127 - n
            v2 == 128 - v
            s2 == Feed(s0, <<n, v>>)
            s4 == Feed(s2, <<n2, v2>>)
        IN  /\ Events(s0, <<n, v, n2, v2>>)
                 = << <<"NoteOn", n, v>>, <<"NoteOn", n2, v2>> >>
            /\ DecoderOf(s2) = <<OwnNoteOn, NoData, NoData>>
            /\ DecoderOf(s4) = <<OwnNoteOn, NoData, NoData>>

\* C2 witness: a second Note On has just been decoded under one status byte.
C2_Witness ==
  /\ pairs = 2
  /\ emitted[1] = "NoteOn"
  /\ rx \in 1 .. 127
  /\ DecoderOf(State) = <<OwnNoteOn, NoData, NoData>>

\* C3: a System Real-Time byte leaves the decoder, the voice and the
\* outputs as they are and makes no handler call, and a Note On message
\* with such a byte between its two data bytes is decoded as without it.
C3_RealTimeIgnored ==
  /\ \A rt \in RealTimeBytes : Step(State, rt) = State
  /\ \A rt \in {248, 255} : \A v \in {0, 127} :
        /\ Feed(State, <<OwnNoteOn, 60, rt, v>>) = Feed(State, <<OwnNoteOn, 60, v>>)
        /\ Events(State, <<OwnNoteOn, 60, rt, v>>)
             = Events(State, <<OwnNoteOn, 60, v>>)

\* C3 witness: a Real-Time byte was read between the two data bytes of a
\* Note On message.
C3_Witness ==
  /\ rx \in RealTimeBytes
  /\ midiStatusByte = OwnNoteOn
  /\ midiDataByte1 \in 0 .. 127
  /\ emitted = None

\* C4 as claimed: a Note Off whose received note number is not notePlaying
\* leaves the gate, notePlaying and notePending unchanged.
C4_NoteOffReceivedNumber ==
  LET s0 == Step(State, OwnNoteOff)
  IN  \A n \in ProbeNotes :
        n # notePlaying =>
          LET s == Feed(s0, <<n, 64>>)
          IN  <<s.gate, s.notePlaying, s.notePending>>
                = <<gate, notePlaying, notePending>>

\* C4 as amended: a Note Off whose note number, clamped into 36..96, is not
\* notePlaying leaves the gate, notePlaying and notePending unchanged, in
\* both modes: as a received message for the note numbers at and around the
\* ends of the note range and around the notes that play, and as a call of
\* midiNoteOff for every note number 0..127.
C4_NoteOffClampedNumber ==
  LET s0 == Step(State, OwnNoteOff)
  IN  /\ \A n \in ProbeNotes :
            ClampNote(n) # notePlaying =>
              LET s == Feed(s0, <<n, 64>>)
              IN  /\ s.emitted = <<"NoteOff", n>>
                  /\ <<s.gate, s.notePlaying, s.notePending>>
                       = <<gate, notePlaying, notePending>>
      /\ \A n \in NoteNumbers :
            ClampNote(n) # notePlaying =>
              LET s == midiNoteOff(State, n, 64)
              IN  <<s.gate, s.notePlaying, s.notePending>>
                    = <<gate, notePlaying, notePending>>

\* C4 witness: a Note Off (midiNoteOff called for a Note On of velocity 0)
\* for another note than the one playing has been handled in multi-trigger
\* mode, and the note plays on.
C4_Witness ==
  /\ MULTI_TRIG = 1
  /\ emitted[1] = "NoteOff"
  /\ notePlaying # 0
  /\ ClampNote(emitted[2]) # notePlaying
  /\ gate = HIGH

\* C7: from every reachable state, a Note On message of velocity 0 for
\* note n has the same effect on the voice state and the outputs as a Note
\* Off message for note n (for the note numbers at and around the ends of
\* the note range and around note 60).
C7_VelocityZeroIsNoteOff ==
  LET on  == Step(State, OwnNoteOn)
      off == Step(State, OwnNoteOff)
  IN  \A n \in ProbeNotes :
        LET a == Feed(on, <<n, 0>>)
            b == Feed(off, <<n, 64>>)
        IN  /\ VoiceOf(a) = VoiceOf(b)
            /\ OutputsOf(a) = OutputsOf(b)
            /\ a.emitted = b.emitted

\* C7 witness: in legato mode a Note On of velocity 0 has been handled and
\* the gate, which had been high, is low.
C7_Witness ==
  /\ midiStatusByte = OwnNoteOn
  /\ rx = 0
  /\ emitted[1] = "NoteOff"
  /\ MULTI_TRIG = 0
  /\ gateRoseAt # -1
  /\ gate = LOW

\* C9: under a status byte of another channel no handler is called and the
\* voice and the outputs stay as they are, whatever data bytes follow; a
\* status byte of the configured channel and its two data bytes are then
\* decoded.
C9_OtherChannelIgnored ==
  \A st \in OtherChannelStatus :
    LET s0 == Step(State, st)
    IN  /\ s0.emitted = None
        /\ VoiceOf(s0) = VoiceOf(State)
        /\ OutputsOf(s0) = OutputsOf(State)
        /\ \A d \in {0, 1, 127} : Step(s0, d) = s0
        /\ Events(s0, <<64, OwnNoteOn, 60, 100>>) = << <<"NoteOn", 60, 100>> >>

\* C9 witness: a data byte was read under the Note On status of channel 1
\* while a note was playing.
C9_Witness ==
  /\ midiStatusByte = 144
  /\ rx \in 0 .. 127
  /\ emitted = None
  /\ gate = HIGH

\* C10: with no running status, either before any status byte or after a
\* System Common byte cut a message, a data byte calls no handler and
\* leaves decoder, voice and outputs as they are; decoding resumes with the
\* next channel-voice status byte.
C10_DataWithoutStatusDropped ==
  /\ midiStatusByte = 0 => \A d \in DataProbes : Step(State, d) = State
  /\ \A sc \in SystemCommonBytes :
        LET s0 == Step(State, sc)
        IN  /\ s0.midiStatusByte = 0
            /\ s0.emitted = None
            /\ VoiceOf(s0) = VoiceOf(State)
            /\ OutputsOf(s0) = OutputsOf(State)
            /\ \A d \in {0, 127} : Step(s0, d) = s0
            /\ Events(s0, <<64, OwnNoteOn, 60, 100>>) = << <<"NoteOn", 60, 100>> >>

\* C10 witness: a data byte was read after a System Common byte had cut a
\* message whose first data byte (2) was already stored.
C10_Witness ==
  /\ midiStatusByte = 0
  /\ midiDataByte1 = 2
  /\ rx \in 0 .. 127
  /\ emitted = None

\* ---- the voice (SpecTimed)
\* C6: in legato mode a Note On received while a note is playing sets the
\* pitch output and notePlaying to the new clamped note, leaves the gate
\* high, and starts no trigger pulse (trigger output and trigger start
\* time unchanged).
C6_LegatoNoteOn ==
  (MULTI_TRIG = 0 /\ notePlaying # 0) =>
    /\ gate = HIGH
    /\ LET s0 == Step(State, OwnNoteOn)
       IN  \A n \in NoteNumbers :
             LET s == Feed(s0, <<n, 100>>)
             IN  /\ s.emitted = <<"NoteOn", n, 100>>
                 /\ s.OCR1A = (ClampNote(n) - MIDILONOTE) * 4
                 /\ s.notePlaying = ClampNote(n)
                 /\ s.gate = HIGH
                 /\ s.trigger = trigger
                 /\ s.triggerPulseBegin = triggerPulseBegin
                 /\ ~s.started

\* C6 witness: in legato mode a Note On has just been handled, the gate rose
\* and the last trigger pulse began earlier, and the trigger is low.
C6_Witness ==
  /\ MULTI_TRIG = 0
  /\ emitted[1] = "NoteOn"
  /\ notePlaying = ClampNote(emitted[2])
  /\ gate = HIGH
  /\ gateRoseAt < now
  /\ trigAt < now
  /\ trigger = LOW

\* ---- messages cut short, the amplitude source, controllers (Spec)
OwnControl == StatusOf(176)
OwnStatus == {OwnNoteOff, OwnNoteOn, OwnControl}

\* The handler calls a complete message (st, a, b) must make in the build of
\* state s, by the MIDI meaning of the message.
EventsOf(s, st, a, b) ==
  IF st = OwnNoteOff \/ (st = OwnNoteOn /\ b = 0)
  THEN << <<"NoteOff", a>> >>
  ELSE IF st = OwnNoteOn
  THEN << <<"NoteOn", a, b>> >>
  ELSE IF st = OwnControl
          /\ ((a = 1 /\ s.AMPLD_CV_MSG = "M") \/ (a = 2 /\ s.AMPLD_CV_MSG = "B"))
  THEN << <<"ControlChange", a, b>> >>
  ELSE <<>>

\* C11: a channel-voice status byte that arrives after the first data byte
\* of a message of the configured channel calls no handler, changes neither
\* voice nor outputs and leaves both data-byte slots empty; one data byte
\* after it makes no event, and the two data bytes after it make the event
\* of the new status byte from these two bytes alone: the state after the
\* status byte is the one it gives when no message was begun before it.
C11_StatusByteDiscardsData ==
  \A st2 \in OwnStatus \cup {144} :
    LET d  == 100
        s2 == Step(State, st2)
    IN  /\ \A st1 \in OwnStatus :
             LET s1 == Feed(State, <<st1, d>>)
             IN  /\ s1.midiDataByte1 = d
                 /\ Step(s1, st2) = s2
        /\ s2.emitted = None
        /\ DecoderOf(s2) = <<st2, NoData, NoData>>
        /\ VoiceOf(s2) = VoiceOf(State)
        /\ OutputsOf(s2) = OutputsOf(State)
        /\ \A a \in {2, 60} :
             /\ Events(s2, <<a>>) = <<>>
             /\ \A b \in {0, 64} :
                  Events(s2, <<a, b>>) = EventsOf(State, st2, a, b)

\* C11 witness: the first message after a status byte that cut a message
\* short has just been decoded into a handler call.
C11_Witness ==
  /\ cut
  /\ pairs = 1
  /\ rx \in 0 .. 127
  /\ emitted # None
  /\ midiDataByte1 = NoData

\* The bytes the claims about single bytes range over: data bytes, the
\* status bytes of the configured channel and of channel 1, a System Common
\* and a Real-Time byte.
ByteProbes == DataProbes \cup OwnStatus \cup {144, 240, 248}

\* The byte completes a message of the amplitude source of the build: the
\* velocity (above 0) of a Note On, or the value of controller 1 (build M)
\* or 2 (build B).
CompletesSource(midibyte) ==
  /\ midibyte < 128
  /\ midiDataByte1 # NoData
  /\ \/ AMPLD_CV_MSG = "V" /\ midiStatusByte = OwnNoteOn /\ midibyte > 0
     \/ AMPLD_CV_MSG = "M" /\ midiStatusByte = OwnControl /\ midiDataByte1 = 1
     \/ AMPLD_CV_MSG = "B" /\ midiStatusByte = OwnControl /\ midiDataByte1 = 2

\* The message (st, a, b) is one of the amplitude source of the build.
IsSource(st, a, b) ==
  \/ AMPLD_CV_MSG = "V" /\ st = OwnNoteOn /\ b > 0
  \/ AMPLD_CV_MSG = "M" /\ st = OwnControl /\ a = 1
  \/ AMPLD_CV_MSG = "B" /\ st = OwnControl /\ a = 2

\* C12: in each build the amplitude output OCR1B changes only when a message
\* of the selected source is completed: a tick leaves it alone, a byte that
\* does not complete such a message leaves it alone, and of the messages
\* Note Off, Note On (velocity 0 and above), Control Change 1, 2 and 7 the
\* ones of the selected source set it and all the others leave it alone.
C12_AmplitudeSourceOnly ==
  /\ \A dt \in CoarseSteps : Timers(AtTime(State, dt)).OCR1B = OCR1B
  /\ \A midibyte \in ByteProbes :
       ~CompletesSource(midibyte) => Step(State, midibyte).OCR1B = OCR1B
  /\ \A st \in OwnStatus \cup {144} : \A a \in {1, 2, 7} : \A b \in {0, 64} :
       Feed(State, <<st, a, b>>).OCR1B
         = IF IsSource(st, a, b) THEN (240 * b) \div 128 ELSE OCR1B

\* C12 witness: in the Modulation build, after controller 1 has set the
\* amplitude, a Note On of velocity 2 has been handled and the amplitude is
\* not the one of velocity 2.
C12_Witness ==
  /\ AMPLD_CV_MSG = "M"
  /\ OCR1B # SetupOCR1B
  /\ emitted = <<"NoteOn", 1, 2>>
  /\ OCR1B # (240 * 2) \div 128

SourceValues == 0 .. 127
ValueProbes == {0, 1, 64, 126, 127}

\* C13: for every source value v in 0..127 the level (240 * v) / 128, taken
\* in 16-bit signed arithmetic and written to the 8-bit register, is
\* floor(240 * v / 128) and lies in 0..239; the register OCR1B holds such a
\* level in every state, and the velocity of a Note On (build V) and the
\* value of controller 1 (build M) or 2 (build B) put exactly this level in
\* OCR1B.
C13_AmplitudeLevel ==
  /\ \A v \in SourceValues :
       /\ AmpldDuty(v) = (240 * v) \div 128
       /\ AmpldDuty(v) >= 0 /\ AmpldDuty(v) <= OCR1C
  /\ OCR1B >= 0 /\ OCR1B <= OCR1C
  /\ \A v \in ValueProbes :
       LET st == IF AMPLD_CV_MSG = "V" THEN OwnNoteOn ELSE OwnControl
           a  == IF AMPLD_CV_MSG = "B" THEN 2 ELSE 1
       IN  (AMPLD_CV_MSG = "V" => v > 0) =>
             Feed(State, <<st, a, v>>).OCR1B = (240 * v) \div 128

\* C13 witness: a source value has just been scaled and written: OCR1B holds
\* the level of the value 2 after a message of the selected source.
C13_Witness ==
  /\ rx = 2
  /\ emitted # None
  /\ emitted[1] = (IF AMPLD_CV_MSG = "V" THEN "NoteOn" ELSE "ControlChange")
  /\ emitted[3] = 2
  /\ OCR1B = 3

\* Controller numbers other than 1 and 2.
OtherControllers == {0, 3, 7, 127}

\* C16: a Control Change message of the configured channel for a controller
\* other than 1 and 2 calls no handler, changes neither voice nor outputs
\* and leaves the running status with both data-byte slots empty; of the
\* pair (controller, value) that follows, the first byte is stored as the
\* controller number and the second sets the amplitude when the controller
\* is the selected source, and nothing otherwise.
C16_OtherControllerConsumed ==
  \A cc \in OtherControllers : \A val \in {0, 127} :
    LET s2 == Feed(State, <<OwnControl, cc, val>>)
    IN  /\ Events(State, <<OwnControl, cc, val>>) = <<>>
        /\ VoiceOf(s2) = VoiceOf(State)
        /\ OutputsOf(s2) = OutputsOf(State)
        /\ DecoderOf(s2) = <<OwnControl, NoData, NoData>>
        /\ \A c2 \in {1, 2} :
             LET s3 == Step(s2, c2)
                 s4 == Step(s3, 64)
             IN  /\ DecoderOf(s3) = <<OwnControl, c2, NoData>>
                 /\ s3.emitted = None
                 /\ DecoderOf(s4) = <<OwnControl, NoData, NoData>>
                 /\ s4.OCR1B = IF IsSource(OwnControl, c2, 64)
                               THEN (240 * 64) \div 128 ELSE OCR1B
                 /\ VoiceOf(s4) = VoiceOf(State)

\* C16 witness: a Control Change message for controller 0 has just been
\* completed under the running status of the configured channel.
C16_Witness ==
  /\ ctl = 0
  /\ rx \in 0 .. 127
  /\ midiStatusByte = OwnControl
  /\ midiDataByte1 = NoData
  /\ midiDataByte2 = NoData
  /\ emitted = None

\* ---- the timers and the voice in multi-trigger mode (SpecTimed)
\* Whole milliseconds on the millisecond counter between the Note On that
\* set the pending note (gateDelayBegin was taken then) and the time t.
PendingFor(t) == (t \div 1000) - (retrigAt \div 1000)

\* C14: in multi-trigger mode the timer part of an iteration of loop() run
\* dt later promotes the pending note if and only if notePending is nonzero
\* and the millisecond counter has advanced by 5 or more since gateDelayBegin
\* was taken: the promotion sets the pitch to the pending note, turns the
\* gate on, starts a trigger pulse, sets notePlaying to the pending note and
\* clears notePending; otherwise gate, pitch, notePlaying and notePending
\* stay as they are.
C14_TickPromotesWhenDue ==
  MULTI_TRIG = 1 =>
    \A dt \in TickSteps :
      LET s1 == AtTime(State, dt)
          s2 == Timers(s1)
      IN  IF notePending # 0 /\ PendingFor(now + dt) >= GATEDELAY
          THEN /\ s2.OCR1A = (notePending - MIDILONOTE) * 4
               /\ s2.gate = HIGH
               /\ s2.trigger = HIGH
               /\ s2.started
               /\ s2.triggerPulseBegin = s1.micros
               /\ s2.notePlaying = notePending
               /\ s2.notePending = 0
          ELSE /\ ~s2.started
               /\ <<s2.gate, s2.OCR1A, s2.notePlaying, s2.notePending>>
                    = <<gate, OCR1A, notePlaying, notePending>>

\* C14 witness: an iteration without a byte has just promoted the pending
\* note, 5 ms on the millisecond counter after the Note On that set it.
C14_Witness ==
  /\ MULTI_TRIG = 1
  /\ rx = NoByte
  /\ retrigAt # -1
  /\ PendingFor(now) = GATEDELAY
  /\ trigAt = now
  /\ gateRoseAt = now
  /\ notePlaying # 0
  /\ notePending = 0

\* ---- the counters wrap (SpecWrap)
\* C15: across the wrap of micros() and millis() the two timers end where
\* the true elapsed time says.  At the end of every iteration of loop() the
\* trigger is high exactly when a pulse began less than TRIGPULSE ago, and a
\* note is pending only while the millisecond counter has advanced by less
\* than 5 since the gate-off interval began; and the timer part of an
\* iteration run dt later ends the pulse exactly when TRIGPULSE or more
\* will have elapsed, and the gate-off interval exactly when 5 ms or more.
C15_TimersAcrossWrap ==
  /\ trigger = HIGH <=> (trigAt # -1 /\ now - trigAt < TRIGPULSE)
  /\ (MULTI_TRIG = 1 /\ notePending # 0) => PendingFor(now) < GATEDELAY
  /\ \A dt \in TickSteps :
       LET s2 == Timers(AtTime(State, dt))
       IN  /\ (trigger = HIGH /\ ~s2.started) =>
                (s2.trigger = LOW <=> (now + dt) - trigAt >= TRIGPULSE)
           /\ (MULTI_TRIG = 1 /\ notePending # 0) =>
                (s2.notePending = 0 <=> PendingFor(now + dt) >= GATEDELAY)

\* C15 witness: a gate-off interval that began before the wrap of the
\* millisecond counter has just been ended after it, 5 ms later, by the
\* promotion of the pending note.
C15_Witness ==
  /\ MULTI_TRIG = 1
  /\ gateDelayBegin[1] = Half - 1
  /\ millis[1] = 0
  /\ micros[1] = 0
  /\ PendingFor(now) = GATEDELAY
  /\ trigAt = now
  /\ gateRoseAt = now
  /\ notePending = 0
  /\ notePlaying # 0
  /\ emitted = None

\* ---- invariants of the voice (SpecTimed)
\* C17: in both modes, at the end of every iteration of loop(), the gate is
\* high if and only if notePlaying is nonzero, and notePlaying is 0 or a note
\* number of the range 36..96.
C17_GateIffPlaying ==
  /\ gate = HIGH <=> notePlaying # 0
  /\ notePlaying \in {0} \cup (MIDILONOTE .. MIDIHINOTE)

\* C17 witness: in multi-trigger mode the promotion of a pending note above
\* the range has turned the gate on, with the top note of the range playing.
C17_Witness ==
  /\ MULTI_TRIG = 1
  /\ retrigAt # -1
  /\ trigAt = now
  /\ emitted = None
  /\ rx = NoByte
  /\ gateRoseAt = now
  /\ PendingFor(now) >= GATEDELAY
  /\ notePending = 0
  /\ gate = HIGH
  /\ notePlaying = MIDIHINOTE

\* C18: in multi-trigger mode, whenever notePending is nonzero, notePlaying
\* is 0 and the gate is low.
C18_PendingMeansSilent ==
  (MULTI_TRIG = 1 /\ notePending # 0) => (notePlaying = 0 /\ gate = LOW)

\* ---- keys pressed and released (SpecKeys)
Quiet == gate = LOW /\ notePlaying = 0 /\ notePending = 0

\* No byte arrives any more and both timers have run out: no note is
\* pending and the trigger is low, so that the iterations of loop() to come
\* change nothing but the clock, and the voice stays as it is for ever.
AtRest == now > LastByteTime /\ notePending = 0 /\ trigger = LOW

\* C19: in multi-trigger mode, when every key that was pressed has been
\* released (every Note On was followed by a Note Off for its note) and no
\* byte arrives any more, the gate ends low with no note playing and none
\* pending, and stays so: the state in which the system comes to rest, which
\* fair iterations of loop() with advancing time reach, is the quiet one.
C19_AllKeysReleasedGoesQuiet == (AtRest /\ held = {}) => Quiet

\* C20: in multi-trigger mode, whenever a note is playing and none is
\* pending, notePlaying is the clamped note of the last Note On event and the
\* pitch output is the level of that note.
C20_PlayingIsLastNoteOn ==
  (MULTI_TRIG = 1 /\ notePlaying # 0 /\ notePending = 0) =>
    /\ notePlaying = lastOn
    /\ OCR1A = (lastOn - MIDILONOTE) * 4

====
